---- MODULE Spec2Model ----
(***************************************************************************)
(* Model of the StockAnalyzer React component (src/unnamed/part_001):      *)
(* the indicator engine calculateIndicators (VWAP, SMA-20, RSI, signal)    *)
(* and the refresh flow fetchStockData driven by mount, timer and button.  *)
(*                                                                         *)
(* JavaScript numbers are modelled as exact fractions n/d with d >= 0,     *)
(* in lowest terms: d = 0 encodes the non-finite values (n = 1 Infinity,   *)
(* n = -1 -Infinity, n = 0 NaN).  Rounding of IEEE doubles is not          *)
(* modelled; the inputs are small integers, whose sums and products are    *)
(* exact in doubles as well.                                               *)
(***************************************************************************)
EXTENDS Integers, Sequences, FiniteSets, TLC

\* ------------------------------------------------------------------ bounds
MaxShort == 2       \* short series: every series of at most this many bars
MaxExtra == 1       \* long series: lengths up to this far past a period
MaxCalls == 2       \* fetchStockData calls that may be in flight together
MaxTime  == 1       \* distinct clock readings new Date() may give
MaxRaw   == 1       \* provider answers: every series of at most this many entries

\* -------------------------------------------------------- program constants
SmaPeriod      == 20
RsiPeriod      == 14
RsiOverbought  == 70
RsiOversold    == 30
BuyThreshold   == 2
SellThreshold  == -2

\* ------------------------------------------------------- JavaScript values
Abs(x) == IF x < 0 THEN -x ELSE x

Min(a, b) == IF a < b THEN a ELSE b

Max(a, b) == IF a > b THEN a ELSE b

RECURSIVE GCD(_, _)
GCD(a, b) == IF b = 0 THEN a ELSE GCD(b, a % b)

Sign(x) == IF x > 0 THEN 1 ELSE IF x < 0 THEN -1 ELSE 0

\* a number n/d, normalised: sign carried by n, lowest terms
Num(n, d) ==
    LET nn == IF d < 0 THEN -n ELSE n
        dd == Abs(d)
    IN  IF dd = 0 THEN [k |-> "number", n |-> Sign(nn), d |-> 0]
        ELSE IF nn = 0 THEN [k |-> "number", n |-> 0, d |-> 1]
        ELSE LET g == GCD(Abs(nn), dd)
             IN  [k |-> "number", n |-> nn \div g, d |-> dd \div g]

N(i) == Num(i, 1)

NaN == Num(0, 0)

JsNull == [k |-> "null", n |-> 0, d |-> 1]

Undefined == [k |-> "undefined", n |-> 0, d |-> 1]

IsNaN(v) == v.k = "number" /\ v.n = 0 /\ v.d = 0

IsFinite(v) == v.k = "number" /\ v.d > 0

\* ToNumber: null -> 0, undefined -> NaN
ToNumber(v) ==
    IF v.k = "null" THEN N(0)
    ELSE IF v.k = "undefined" THEN NaN
    ELSE v

Add(a, b) ==
    IF a.d = 0 /\ b.d = 0
    THEN (IF a.n = b.n THEN a ELSE NaN)
    ELSE Num(a.n * b.d + b.n * a.d, a.d * b.d)

Neg(a) == Num(-a.n, a.d)

Sub(a, b) == Add(a, Neg(b))

Mul(a, b) == Num(a.n * b.n, a.d * b.d)

Div(a, b) == Num(a.n * b.d, a.d * b.n)

\* a > b of the language: operands go through ToNumber, NaN compares false
Gt(x, y) ==
    LET a == ToNumber(x)
        b == ToNumber(y)
    IN  IF a.d = 0 /\ b.d = 0
        THEN a.n = 1 /\ b.n = -1
        ELSE a.n * b.d > b.n * a.d

Lt(x, y) == Gt(y, x)

\* a === b on numbers
StrictEq(a, b) == a.k = b.k /\ ~IsNaN(a) /\ a = b

\* ------------------------------------------------------------------ lodash
RECURSIVE Sum(_)
Sum(s) == IF Len(s) = 0 THEN N(0)
          ELSE Add(Sum(SubSeq(s, 1, Len(s) - 1)), s[Len(s)])

\* _.mean: NaN for an empty array, sum / length otherwise
mean(s) == IF Len(s) = 0 THEN NaN ELSE Div(Sum(s), N(Len(s)))

\* Array.prototype.slice(start, end) for 0 <= start
Slice(s, start, end) == SubSeq(s, start + 1, Min(end, Len(s)))

Map(s, F(_)) == [i \in 1..Len(s) |-> F(s[i])]

Close(bar) == bar.close

Volume(bar) == bar.volume

CloseTimesVolume(bar) == Mul(bar.close, bar.volume)

Arr(s) == [k |-> "array", v |-> s]

\* -------------------------------------------------------- indicator engine
AboveVWAP  == "Price is trading above VWAP"
BelowVWAP  == "Price is trading below VWAP"
HighVolume == "Unusually high volume detected"
Overbought == "RSI indicates overbought conditions"
Oversold   == "RSI indicates oversold conditions"
AboveSMA   == "Price is above 20-period moving average"
BelowSMA   == "Price is below 20-period moving average"

\* slip: divides by the number of bars instead of the summed volume
calculateVWAP_bars(data) ==
    Div(Sum(Map(data, CloseTimesVolume)), N(Len(data)))

\* calculateVWAP: sumBy(close * volume) / sumBy(volume) over all of data
calculateVWAP(data) ==
    LET sumPriceVolume == Sum(Map(data, CloseTimesVolume))
        sumVolume      == Sum(Map(data, Volume))
    IN  Div(sumPriceVolume, sumVolume)

Throw(message) == [k |-> "throw", message |-> message]

\* calling obj.name(...): a TypeError unless the object has that member
CallMember(obj, name, value) ==
    IF name \in DOMAIN obj THEN value
    ELSE Throw("_." \o name \o " is not a function")

\* slip: leaves the early entries undefined instead of null
smaCallback_undefined(element, index, array) ==
    IF index < SmaPeriod - 1 THEN Undefined
    ELSE CallMember(element, "mean",
            mean(Map(Slice(array, index - (SmaPeriod - 1), index + 1), Close)))

\* the callback of data.map: its first parameter is named _ and hides
\* lodash, so from index 19 on _.mean is looked up on the bar itself
smaCallback(element, index, array) ==
    IF index < SmaPeriod - 1 THEN JsNull
    ELSE CallMember(element, "mean",
            mean(Map(Slice(array, index - (SmaPeriod - 1), index + 1), Close)))

\* the sma20 array, or the error the first throwing callback raises
sma20(data) ==
    LET entries == [i \in 1..Len(data) |-> smaCallback(data[i], i - 1, data)]
        thrown  == {i \in 1..Len(data) : entries[i].k = "throw"}
    IN  IF thrown = {} THEN Arr(entries)
        ELSE entries[CHOOSE i \in thrown : \A j \in thrown : i <= j]

changes(prices) ==
    [i \in 1..(Len(prices) - 1) |-> Sub(prices[i + 1], prices[i])]

gainOf(change) == IF Gt(change, N(0)) THEN change ELSE N(0)

lossOf(change) == IF Lt(change, N(0)) THEN Neg(change) ELSE N(0)

avgGain(prices, period) == mean(Slice(Map(changes(prices), gainOf), 0, period))

avgLoss(prices, period) == mean(Slice(Map(changes(prices), lossOf), 0, period))

\* slip: returns 100 / (1 + rs) without subtracting it from 100
calculateRSI_raw(prices, period) ==
    IF StrictEq(avgLoss(prices, period), N(0)) THEN N(100)
    ELSE LET rs == Div(avgGain(prices, period), avgLoss(prices, period))
         IN  Div(N(100), Add(N(1), rs))

calculateRSI(prices, period) ==
    IF StrictEq(avgLoss(prices, period), N(0)) THEN N(100)
    ELSE LET rs == Div(avgGain(prices, period), avgLoss(prices, period))
         IN  Sub(N(100), Div(N(100), Add(N(1), rs)))

\* the four rules; acc is [confidence, reasoning] as left by the rules before
priceVsVWAP(acc, currentPrice, vwap) ==
    IF Gt(currentPrice, vwap)
    THEN [confidence |-> acc.confidence + 1, reasoning |-> Append(acc.reasoning, AboveVWAP)]
    ELSE [confidence |-> acc.confidence - 1, reasoning |-> Append(acc.reasoning, BelowVWAP)]

\* slip: the volume string is put in front (unshift instead of push)
volumeAnalysis_front(acc, currentVol, avgVolume) ==
    IF Gt(currentVol, Mul(avgVolume, Num(3, 2)))
    THEN [confidence |-> acc.confidence + 1, reasoning |-> <<HighVolume>> \o acc.reasoning]
    ELSE acc

volumeAnalysis(acc, currentVol, avgVolume) ==
    IF Gt(currentVol, Mul(avgVolume, Num(3, 2)))
    THEN [confidence |-> acc.confidence + 1, reasoning |-> Append(acc.reasoning, HighVolume)]
    ELSE acc

\* slip: the overbought penalty is 1 instead of 2
rsiAnalysis_one(acc, rsi) ==
    IF Gt(rsi, N(RsiOverbought))
    THEN [confidence |-> acc.confidence - 1, reasoning |-> Append(acc.reasoning, Overbought)]
    ELSE IF Lt(rsi, N(RsiOversold))
    THEN [confidence |-> acc.confidence + 2, reasoning |-> Append(acc.reasoning, Oversold)]
    ELSE acc

rsiAnalysis(acc, rsi) ==
    IF Gt(rsi, N(RsiOverbought))
    THEN [confidence |-> acc.confidence - 2, reasoning |-> Append(acc.reasoning, Overbought)]
    ELSE IF Lt(rsi, N(RsiOversold))
    THEN [confidence |-> acc.confidence + 2, reasoning |-> Append(acc.reasoning, Oversold)]
    ELSE acc

trendAnalysis(acc, currentPrice, sma20Current) ==
    IF Gt(currentPrice, sma20Current)
    THEN [confidence |-> acc.confidence + 1, reasoning |-> Append(acc.reasoning, AboveSMA)]
    ELSE [confidence |-> acc.confidence - 1, reasoning |-> Append(acc.reasoning, BelowSMA)]

\* slip: strict comparisons, so that +2 and -2 stay HOLD
finalSignal_strict(confidence) ==
    IF confidence > BuyThreshold THEN "BUY"
    ELSE IF confidence < SellThreshold THEN "SELL"
    ELSE "HOLD"

finalSignal(confidence) ==
    IF confidence >= BuyThreshold THEN "BUY"
    ELSE IF confidence <= SellThreshold THEN "SELL"
    ELSE "HOLD"

NoResult == [k |-> "null"]

calculateIndicators(arg) ==
    IF arg.k # "array" \/ Len(arg.v) = 0 THEN NoResult
    ELSE IF sma20(arg.v).k = "throw" THEN sma20(arg.v)
    ELSE
    LET data         == arg.v
        prices       == Map(data, Close)
        rsi          == calculateRSI(prices, RsiPeriod)
        vwap         == calculateVWAP(data)
        currentPrice == data[Len(data)].close
        currentVol   == data[Len(data)].volume
        avgVolume    == mean(Map(data, Volume))
        sma20Current == sma20(data).v[Len(data)]
        a0 == [confidence |-> 0, reasoning |-> << >>]
        a1 == priceVsVWAP(a0, currentPrice, vwap)
        a2 == volumeAnalysis(a1, currentVol, avgVolume)
        a3 == rsiAnalysis(a2, rsi)
        a4 == trendAnalysis(a3, currentPrice, sma20Current)
    IN  [k |-> "result",
         signal |-> finalSignal(a4.confidence),
         reasoning |-> a4.reasoning,
         indicators |-> [sma20 |-> sma20Current, rsi |-> rsi, vwap |-> vwap,
                         confidence |-> a4.confidence],
         currentPrice |-> currentPrice]

\* ------------------------------------------------------------------- state
VARIABLES
    input,       \* engine run: the argument handed to calculateIndicators
    result,      \* engine run: what the call returned, NotCalled before it
    stockData,   \* useState([])
    analysis,    \* useState(null)
    loading,     \* useState(false)
    error,       \* useState(null)
    lastUpdate,  \* useState(null)
    mounted,     \* the mount effect has run and its interval is registered
    calls,       \* position of each fetchStockData invocation
    last         \* what the most recently finished invocation was answered

vars == <<input, result, stockData, analysis, loading, error, lastUpdate,
          mounted, calls, last>>

engineVars == <<input, result>>

componentVars == <<stockData, analysis, loading, error, lastUpdate,
                   mounted, calls, last>>

\* ------------------------------------------------------------ engine inputs
Bar(c, v) == [close |-> c, volume |-> v]

ShortCloses == {NaN, N(0), N(1), N(2)}

ShortVolumes == {N(0), N(1), N(4)}

ShortBars == {Bar(c, v) : c \in ShortCloses, v \in ShortVolumes}

ShortSeries == UNION {[1..n -> ShortBars] : n \in 0..MaxShort}

\* long series: closes run with slope s1 up to bar k and with slope s2 after
\* it, optionally ending on a zero close; four volume profiles
Lens == (RsiPeriod..(RsiPeriod + 1 + MaxExtra))
            \cup ((SmaPeriod - 1)..(SmaPeriod + MaxExtra))

Slopes == {-1, 0, 1, 3}

Turns == {5, 7, 16}

Endings == {"keep", "zero"}

Profiles == {"none", "flat", "spike", "early"}

Base == 2 * (SmaPeriod + MaxExtra)

PatternClose(n, s1, k, s2, e, i) ==
    IF e = "zero" /\ i = n - 1 THEN N(0)
    ELSE N(Base + s1 * Min(i, k) + s2 * Max(0, i - k))

PatternVolume(n, p, i) ==
    CASE p = "none"  -> N(0)
      [] p = "flat"  -> N(1)
      [] p = "spike" -> IF i = n - 1 THEN N(3) ELSE N(1)
      [] p = "early" -> IF i = 0 THEN N(5) ELSE N(1)

PatternSeries(n, s1, k, s2, e, p) ==
    [j \in 1..n |-> Bar(PatternClose(n, s1, k, s2, e, j - 1),
                        PatternVolume(n, p, j - 1))]

LongSeries ==
    {PatternSeries(n, s1, k, s2, e, p) :
        n \in Lens, s1 \in Slopes, k \in Turns, s2 \in Slopes,
        e \in Endings, p \in Profiles}

EngineInputs == {Arr(s) : s \in ShortSeries \cup LongSeries} \cup {Undefined}

NotCalled == [k |-> "notcalled"]

\* ----------------------------------------------------- component: initial
Null == [k |-> "null"]

Str(s) == [k |-> "string", s |-> s]

CallIds == 1..MaxCalls

NoAnswer == [k |-> "none"]

InitComponent ==
    /\ stockData = << >>
    /\ analysis = NoResult
    /\ loading = FALSE
    /\ error = Null
    /\ lastUpdate = Null
    /\ mounted = FALSE
    /\ calls = [id \in CallIds |-> "idle"]
    /\ last = NoAnswer

\* ------------------------------------------------- the engine on its own
InitEngine ==
    /\ input \in EngineInputs
    /\ result = NotCalled
    /\ InitComponent

Analyze ==
    /\ result = NotCalled
    /\ result' = calculateIndicators(input)
    /\ UNCHANGED input
    /\ UNCHANGED componentVars

NextEngine == Analyze

EngineSpec == InitEngine /\ [][NextEngine]_vars

\* ------------------------------------------------ component: the provider
\* a decimal text such as "2.5000": whole part and four fraction digits
RawText(whole, frac) == [k |-> "string", whole |-> whole, frac |-> frac]

\* parseFloat: the value of a decimal text, NaN for a missing field
parseFloat(v) ==
    IF v.k = "string" THEN Num(v.whole * 10000 + v.frac, 10000) ELSE NaN

\* one entry of 'Time Series (5min)': the '4. close' and '5. volume' fields
\* (date, open, high and low are carried along but never computed with)
RawEntry(c, v) == [close |-> c, volume |-> v]

RawEntries ==
    {RawEntry(Undefined, RawText(0, 0)), RawEntry(RawText(1, 0), RawText(3, 0)),
     RawEntry(RawText(2, 5000), RawText(3, 0)), RawEntry(RawText(2, 5000), RawText(0, 0))}

\* a full window of bars, newest first as the provider lists them
RawTrend(dir) ==
    [j \in 1..SmaPeriod |->
        RawEntry(RawText(Base + dir * (SmaPeriod - j), 0),
                 RawText(IF j = 1 THEN 9 ELSE 3, 0))]

RawSeries ==
    UNION {[1..n -> RawEntries] : n \in 0..MaxRaw} \cup {RawTrend(1), RawTrend(-1)}

Obj(s) == [k |-> "object", v |-> s]

\* the JSON bodies the provider answers with; its messages are non-empty
\* (a body with 'Error Message' or 'Note' is rejected before its series is
\* read, so one series stands for all of them there)
Bodies ==
    {[errorMessage |-> Undefined, note |-> Undefined, timeSeries |-> t] :
        t \in {Undefined} \cup {Obj(s) : s \in RawSeries}}
    \cup
    {[errorMessage |-> e, note |-> n, timeSeries |-> t] :
        e \in {Undefined, Str("Invalid API call.")},
        n \in {Undefined, Str("Thank you for using Alpha Vantage!")},
        t \in {Undefined, Obj(RawTrend(1))}}

Truthy(v) ==
    /\ v.k \notin {"undefined", "null"}
    /\ v.k = "string" => v.s # ""

\* messages of the errors fetch() and response.json() reject with
RejectMessages == {Str(""), Str("Failed to fetch")}

ParseMessages == {Str("Unexpected token < in JSON at position 0")}

Times == {Str(<<"time", t>>) : t \in 1..MaxTime}

Reverse(s) == [i \in 1..Len(s) |-> s[Len(s) + 1 - i]]

parseEntry(e) == Bar(parseFloat(e.close), parseFloat(e.volume))

\* Object.entries(...).map(...).reverse()
formatData(timeSeries) == Reverse(Map(timeSeries.v, parseEntry))

\* ------------------------------------------------- component: operations
\* calculateIndicators(formattedData), tabulated over the series the
\* provider can send
engineOn ==
    [s \in {formatData(Obj(t)) : t \in RawSeries} |-> calculateIndicators(Arr(s))]

Answer(stage, body, bars, called) ==
    [k |-> "answer", stage |-> stage, errorMessage |-> body.errorMessage,
     note |-> body.note, hasSeries |-> Truthy(body.timeSeries),
     bars |-> bars, engineCalled |-> called]

NoBody == [errorMessage |-> Undefined, note |-> Undefined, timeSeries |-> Undefined]

\* the synchronous head of fetchStockData, up to the first await
begin(id) ==
    /\ calls[id] = "idle"
    /\ calls' = [calls EXCEPT ![id] = "fetch"]
    /\ loading' = TRUE
    /\ error' = Null
    /\ UNCHANGED <<stockData, analysis, lastUpdate, last>>

\* slip: the catch block also drops the analysis shown so far
fail_clear(id, message, answer) ==
    /\ error' = IF Truthy(message) THEN message
                ELSE Str("Error fetching stock data. Please try again later.")
    /\ loading' = FALSE
    /\ calls' = [calls EXCEPT ![id] = "idle"]
    /\ last' = answer
    /\ analysis' = NoResult
    /\ UNCHANGED <<stockData, lastUpdate>>

\* catch and finally
fail(id, message, answer) ==
    /\ error' = IF Truthy(message) THEN message
                ELSE Str("Error fetching stock data. Please try again later.")
    /\ loading' = FALSE
    /\ calls' = [calls EXCEPT ![id] = "idle"]
    /\ last' = answer
    /\ UNCHANGED <<stockData, analysis, lastUpdate>>

\* the mount effect: first fetch, then setInterval
Mount ==
    /\ ~mounted
    /\ mounted' = TRUE
    /\ begin(1)
    /\ UNCHANGED engineVars

\* the 300 second interval fires
TimerFire(id) ==
    /\ mounted
    /\ begin(id)
    /\ UNCHANGED <<mounted, input, result>>

\* the Refresh button, disabled while loading
Refresh(id) ==
    /\ mounted
    /\ ~loading
    /\ begin(id)
    /\ UNCHANGED <<mounted, input, result>>

\* fetch() rejects (network failure)
FetchRejected(id) ==
    /\ calls[id] = "fetch"
    /\ \E m \in RejectMessages : fail(id, m, Answer("rejected", NoBody, 0, FALSE))
    /\ UNCHANGED <<mounted, input, result>>

\* fetch() resolves: !response.ok throws, else response.json() is awaited
FetchResolved(id) ==
    /\ calls[id] = "fetch"
    /\ \E ok \in BOOLEAN :
          IF ~ok
          THEN fail(id, Str("Failed to fetch data"), Answer("notok", NoBody, 0, FALSE))
          ELSE /\ calls' = [calls EXCEPT ![id] = "json"]
               /\ UNCHANGED <<stockData, analysis, loading, error, lastUpdate, last>>
    /\ UNCHANGED <<mounted, input, result>>

\* response.json() rejects (the body is not JSON)
JsonRejected(id) ==
    /\ calls[id] = "json"
    /\ \E m \in ParseMessages : fail(id, m, Answer("badjson", NoBody, 0, FALSE))
    /\ UNCHANGED <<mounted, input, result>>

\* response.json() resolves: the checks, the transformation, the engine
JsonResolved(id) ==
    /\ calls[id] = "json"
    /\ \E data \in Bodies :
          IF Truthy(data.errorMessage)
          THEN fail(id, data.errorMessage, Answer("data", data, 0, FALSE))
          ELSE IF Truthy(data.note)
          THEN fail(id, Str("API call frequency exceeded. Please wait a minute before trying again."),
                    Answer("data", data, 0, FALSE))
          ELSE IF ~Truthy(data.timeSeries)
          THEN fail(id, Str("No data received. Please check if the market is open."),
                    Answer("data", data, 0, FALSE))
          ELSE LET formattedData == formatData(data.timeSeries)
                   engine        == engineOn[formattedData]
               IN  /\ stockData' = formattedData
                   /\ calls' = [calls EXCEPT ![id] = "idle"]
                   /\ last' = Answer("data", data, Len(formattedData), TRUE)
                   /\ loading' = FALSE
                   /\ IF engine.k = "throw"
                      THEN /\ error' = Str(engine.message)
                           /\ UNCHANGED <<analysis, lastUpdate>>
                      ELSE /\ analysis' = engine
                           /\ \E t \in Times : lastUpdate' = t
                           /\ UNCHANGED error
    /\ UNCHANGED <<mounted, input, result>>

Init ==
    /\ input = Undefined
    /\ result = NotCalled
    /\ InitComponent

Next ==
    \/ Mount
    \/ \E id \in CallIds : TimerFire(id)
    \/ \E id \in CallIds : Refresh(id)
    \/ \E id \in CallIds : FetchRejected(id)
    \/ \E id \in CallIds : FetchResolved(id)
    \/ \E id \in CallIds : JsonRejected(id)
    \/ \E id \in CallIds : JsonResolved(id)

Spec == Init /\ [][Next]_vars

\* ------------------------------------------------------ claims: the engine
Returned == result.k = "result"

Bars == input.v

IntCloses(s) == \A i \in 1..Len(s) : IsFinite(s[i].close) /\ s[i].close.d = 1

\* reference sums over the integer inputs, computed without the JS numbers
RECURSIVE RefCloseSum(_)
RefCloseSum(s) == IF Len(s) = 0 THEN 0
                  ELSE RefCloseSum(Tail(s)) + Head(s).close.n

RECURSIVE RefVolumeSum(_)
RefVolumeSum(s) == IF Len(s) = 0 THEN 0
                   ELSE RefVolumeSum(Tail(s)) + Head(s).volume.n

RECURSIVE RefPriceVolumeSum(_)
RefPriceVolumeSum(s) == IF Len(s) = 0 THEN 0
                        ELSE RefPriceVolumeSum(Tail(s)) + Head(s).close.n * Head(s).volume.n

\* weight each reasoning string stands for
Weight(str) ==
    CASE str = AboveVWAP  -> 1
      [] str = BelowVWAP  -> -1
      [] str = HighVolume -> 1
      [] str = Overbought -> -2
      [] str = Oversold   -> 2
      [] str = AboveSMA   -> 1
      [] str = BelowSMA   -> -1

RECURSIVE WeightSum(_)
WeightSum(r) == IF Len(r) = 0 THEN 0 ELSE Weight(Head(r)) + WeightSum(Tail(r))

Front(r) == SubSeq(r, 1, Len(r) - 1)

\* the engine was run on a non-empty series
Called == result # NotCalled /\ input.k = "array" /\ Len(input.v) > 0

\* C1 as claimed: a series of exactly 20 bars has exactly one non-absent SMA
\* value, it is the mean of all 20 closes and it is returned as
\* indicators.sma20; a series of exactly 19 bars returns an absent (null)
\* current SMA.
C1_SmaBoundary ==
    Called =>
        /\ Len(Bars) = 20 =>
              /\ sma20(Bars).k = "array"
              /\ Cardinality({i \in 1..20 : sma20(Bars).v[i] # JsNull}) = 1
              /\ Returned
              /\ IsFinite(result.indicators.sma20)
              /\ result.indicators.sma20.n * 20
                    = result.indicators.sma20.d * RefCloseSum(Bars)
        /\ Len(Bars) = 19 =>
              /\ Returned
              /\ result.indicators.sma20 = JsNull

\* C3: the signal is BUY exactly when confidence >= 2, SELL exactly when
\* confidence <= -2 and HOLD otherwise; 1, 0 and -1 map to HOLD.
C3_SignalThresholds ==
    Returned =>
        LET c == result.indicators.confidence
        IN  /\ (result.signal = "BUY") <=> (c >= 2)
            /\ (result.signal = "SELL") <=> (c <= -2)
            /\ (result.signal = "HOLD") <=> (c > -2 /\ c < 2)
            /\ c \in {1, 0, -1} => result.signal = "HOLD"

C3_Witness ==
    /\ Returned
    /\ result.indicators.confidence = 2
    /\ result.signal = "BUY"

\* C4 as claimed: with fewer than 20 bars rule 4 always takes the "below
\* average" branch: -1 and the 'below' string, never the 'above' string.
C4_AlwaysBelow ==
    (Returned /\ Len(Bars) < 20) =>
        /\ result.reasoning[Len(result.reasoning)] = BelowSMA
        /\ result.indicators.confidence = WeightSum(Front(result.reasoning)) - 1

\* C4 amended: with fewer than 20 bars the current SMA is null, which the
\* comparison reads as 0: rule 4 takes the 'above' branch (+1) exactly when
\* the current price is greater than 0, the 'below' branch (-1) otherwise.
C4_NullComparesAsZero ==
    (Returned /\ Len(Bars) < 20) =>
        /\ result.indicators.sma20 = JsNull
        /\ IF result.currentPrice.n > 0
           THEN /\ result.reasoning[Len(result.reasoning)] = AboveSMA
                /\ result.indicators.confidence
                      = WeightSum(Front(result.reasoning)) + 1
           ELSE /\ result.reasoning[Len(result.reasoning)] = BelowSMA
                /\ result.indicators.confidence
                      = WeightSum(Front(result.reasoning)) - 1

C4_Witness ==
    /\ Returned
    /\ Len(Bars) < 20
    /\ result.currentPrice.n > 0
    /\ result.reasoning[Len(result.reasoning)] = AboveSMA

\* C5 as claimed: for a series of exactly one bar the mean of the empty
\* gains/losses slices is 0, so avgGain = avgLoss = 0 and rsi is 100.
C5_EmptyMeanIsZero ==
    (Returned /\ Len(Bars) = 1) =>
        /\ avgGain(Map(Bars, Close), RsiPeriod) = N(0)
        /\ avgLoss(Map(Bars, Close), RsiPeriod) = N(0)
        /\ result.indicators.rsi = N(100)

StrictlyIncreasing(s) ==
    /\ IntCloses(s)
    /\ \A i \in 1..(Len(s) - 1) : s[i].close.n < s[i + 1].close.n

StrictlyDecreasing(s) ==
    /\ IntCloses(s)
    /\ \A i \in 1..(Len(s) - 1) : s[i].close.n > s[i + 1].close.n

\* C6 as claimed: at least 15 bars with strictly increasing closes give
\* avgLoss = 0 and a returned rsi of 100; with strictly decreasing closes
\* avgGain = 0 and a returned rsi of 0.
C6_RsiExtremes ==
    (Called /\ Len(Bars) >= 15) =>
        /\ StrictlyIncreasing(Bars) =>
              /\ avgLoss(Map(Bars, Close), RsiPeriod) = N(0)
              /\ Returned
              /\ result.indicators.rsi = N(100)
        /\ StrictlyDecreasing(Bars) =>
              /\ avgGain(Map(Bars, Close), RsiPeriod) = N(0)
              /\ Returned
              /\ result.indicators.rsi = N(0)

AllVolumesZero(s) == \A i \in 1..Len(s) : s[i].volume = N(0)

\* C7 as claimed: vwap is sum(close * volume) / sum(volume) over every bar;
\* when every volume is 0 it is NaN, nothing is raised and a result with
\* signal and reasoning is returned.
C7_Vwap ==
    Called =>
        /\ Returned
        /\ (IntCloses(Bars) /\ ~AllVolumesZero(Bars)) =>
              /\ IsFinite(result.indicators.vwap)
              /\ result.indicators.vwap.n * RefVolumeSum(Bars)
                    = result.indicators.vwap.d * RefPriceVolumeSum(Bars)
        /\ AllVolumesZero(Bars) =>
              /\ IsNaN(result.indicators.vwap)
              /\ result.signal \in {"BUY", "SELL", "HOLD"}
              /\ Len(result.reasoning) >= 1

Rank(str) ==
    CASE str \in {AboveVWAP, BelowVWAP}  -> 1
      [] str = HighVolume                -> 2
      [] str \in {Overbought, Oversold}  -> 3
      [] str \in {AboveSMA, BelowSMA}    -> 4

\* C8: the reasoning strings come in rule order VWAP, volume, RSI, SMA: a
\* VWAP string first, an SMA string last, at most one string per rule.
C8_ReasoningOrder ==
    Returned =>
        LET r == result.reasoning
        IN  /\ Len(r) >= 2
            /\ r[1] \in {AboveVWAP, BelowVWAP}
            /\ r[Len(r)] \in {AboveSMA, BelowSMA}
            /\ \A i, j \in 1..Len(r) : i < j => Rank(r[i]) < Rank(r[j])

C8_Witness ==
    /\ Returned
    /\ Len(result.reasoning) = 4
    /\ result.reasoning[2] = HighVolume
    /\ result.reasoning[3] = Oversold

\* C11 as claimed: rsi depends only on the first 15 closes: a series of at
\* least 15 bars yields the same rsi as the series of its first 15 bars,
\* whatever its later bars are.
C11_RsiFirstWindow ==
    (Called /\ Len(Bars) >= 15) =>
        LET other == calculateIndicators(Arr(SubSeq(Bars, 1, RsiPeriod + 1)))
        IN  /\ other.k = "result"
            /\ Returned
            /\ result.indicators.rsi = other.indicators.rsi

\* C12: the returned confidence is the sum, from 0, of the weights of the
\* strings in reasoning (+1/-1 VWAP, +1 volume, -2/+2 RSI, +1/-1 SMA).
C12_ConfidenceIsWeightSum ==
    Returned => result.indicators.confidence = WeightSum(result.reasoning)

C12_Witness ==
    /\ Returned
    /\ \E i \in 1..Len(result.reasoning) : result.reasoning[i] = HighVolume
    /\ \E i \in 1..Len(result.reasoning) : result.reasoning[i] = Overbought
    /\ result.indicators.confidence = WeightSum(result.reasoning)

\* --------------------------------------------------- claims: the component
\* some fetchStockData invocation runs to its end in this step
Finishes == \E id \in CallIds : calls[id] # "idle" /\ calls'[id] = "idle"

\* C2 as claimed: calculateIndicators returns null for an empty or a missing
\* series, and a refresh whose parsed series is empty ends with
\* analysis = null and error = null.
C2_EmptySeriesNoResultNoError ==
    /\ calculateIndicators(Arr(<< >>)) = NoResult
    /\ calculateIndicators(Undefined) = NoResult
    /\ (last.k = "answer" /\ last.engineCalled /\ last.bars = 0) =>
          (analysis = NoResult /\ error = Null)

\* the answer is one of the four failures of the upstream shape
BadAnswer(a) ==
    \/ a.stage = "notok"
    \/ /\ a.stage = "data"
       /\ Truthy(a.errorMessage) \/ Truthy(a.note) \/ ~a.hasSeries

MappedMessage(a) ==
    IF a.stage = "notok" THEN Str("Failed to fetch data")
    ELSE IF Truthy(a.errorMessage) THEN a.errorMessage
    ELSE IF Truthy(a.note)
    THEN Str("API call frequency exceeded. Please wait a minute before trying again.")
    ELSE Str("No data received. Please check if the market is open.")

\* C10: a response that is not ok, carries 'Error Message' or 'Note', or
\* lacks 'Time Series (5min)' ends the fetch without the engine being
\* called: error becomes the mapped message, stockData, analysis and
\* lastUpdate keep their values and loading becomes false.
C10_FailureBeforeEngine ==
    [][(Finishes /\ BadAnswer(last')) =>
          /\ ~last'.engineCalled
          /\ error' = MappedMessage(last')
          /\ UNCHANGED <<stockData, analysis, lastUpdate>>
          /\ loading' = FALSE]_vars

C10_Witness ==
    /\ last.k = "answer"
    /\ last.stage = "data"
    /\ Truthy(last.note)
    /\ ~Truthy(last.errorMessage)
    /\ last.hasSeries
    /\ error = Str("API call frequency exceeded. Please wait a minute before trying again.")
    /\ analysis # NoResult
    /\ lastUpdate # Null
    /\ ~loading

\* C13 as claimed: once a run of fetchStockData has completed, the stored
\* analysis is the engine's result for the stored stockData.
C13_AnalysisMatchesStockData ==
    last.k = "answer" => analysis = calculateIndicators(Arr(stockData))

InFlight == {id \in CallIds : calls[id] # "idle"}

\* C14 as claimed: loading is true whenever at least one fetchStockData
\* call is still in flight (so that the Refresh button stays disabled).
C14_LoadingWhileInFlight ==
    InFlight # {} => loading

====
